---- MODULE Spec2Model ----
(***************************************************************************)
(* The bounded web crawl of server/python-agent/tasks/web_scrape.py:       *)
(* execute(params) validates the seed URL, then runs a loop that pops      *)
(* (url, depth) pairs from the list to_visit, fetches each URL not yet in  *)
(* the set visited, records the page and appends the page's links.         *)
(*                                                                         *)
(* A string is a sequence of tokens ("http:", "//", a host, "/", a path    *)
(* segment), so that urlparse, startswith and the f-string concatenation   *)
(* of the link resolution are computed on the text as the code does.       *)
(* The web is the environment: each requests.get draws its outcome.        *)
(***************************************************************************)
EXTENDS Integers, Sequences, FiniteSets, TLC

\* ---------------------------------------------------------------- bounds
MaxDepth == 2
MaxPages == 3
MaxLinks == 2

\* ---------------------------------------------------------------- strings
SchemeTokens == {"http:", "https:"}

StartsWith(s, prefix) ==
    /\ Len(s) >= Len(prefix)
    /\ SubSeq(s, 1, Len(prefix)) = prefix

\* urlparse(url).scheme, kept as its token ("http:" for scheme "http");
\* the empty sequence when the text has no scheme
UrlScheme(s) ==
    IF Len(s) >= 1 /\ s[1] \in SchemeTokens THEN <<s[1]>> ELSE <<>>

AfterScheme(s) ==
    IF UrlScheme(s) = <<>> THEN s ELSE Tail(s)

RECURSIVE UpToSlash(_)
UpToSlash(s) ==
    IF s = <<>> \/ Head(s) = "/" THEN <<>>
    ELSE <<Head(s)>> \o UpToSlash(Tail(s))

\* urlparse(url).netloc: what follows "//" after the scheme, up to the next "/"
UrlNetloc(s) ==
    LET rest == AfterScheme(s) IN
    IF StartsWith(rest, <<"//">>) THEN UpToSlash(Tail(rest)) ELSE <<>>

\* the test of line 40 with "and" for "or": one of the two parts is enough
ValidUrlEither(s) == UrlScheme(s) # <<>> \/ UrlNetloc(s) # <<>>

\* line 40: the seed is refused when it has no scheme or no host
ValidUrl(s) == UrlScheme(s) # <<>> /\ UrlNetloc(s) # <<>>

\* href.startswith(('http://', 'https://'))
IsAbsoluteHref(href) ==
    \E sch \in SchemeTokens : StartsWith(href, <<sch, "//">>)

\* line 102: f"{parsed_url.scheme}://{parsed_url.netloc}", of the SEED's parse
BaseUrl(seed) == UrlScheme(seed) \o <<"//">> \o UrlNetloc(seed)

\* lines 101-106: an absolute href is kept, any other is prefixed
ResolveHref(seed, href) ==
    IF IsAbsoluteHref(href) THEN href
    ELSE IF StartsWith(href, <<"/">>) THEN BaseUrl(seed) \o href
    ELSE BaseUrl(seed) \o <<"/">> \o href

\* ---------------------------------------------------------------- inputs
SeedX      == <<"http:", "//", "x", "/", "p1">>
SeedNoUrl  == <<"not-a-url">>
SeedNoHost == <<"http:", "/", "p1">>
SeedNoSch  == <<"//", "x", "/", "p1">>
Seeds == {SeedX, SeedNoUrl, SeedNoHost, SeedNoSch}

Hrefs == { <<"/", "p2">>,                        \* root-relative
           <<"p3">>,                             \* document-relative
           <<"http:", "//", "x", "/", "p1">>,    \* absolute, back to the seed
           <<"http:", "//", "y", "/", "p1">> }   \* absolute, another host

RECURSIVE SeqsUpTo(_, _)
SeqsUpTo(S, n) ==
    IF n = 0 THEN {<<>>}
    ELSE LET shorter == SeqsUpTo(S, n - 1) IN
         shorter \cup {Append(s, x) : s \in {t \in shorter : Len(t) = n - 1}, x \in S}

LinkLists == SeqsUpTo(Hrefs, MaxLinks)

\* what one requests.get + BeautifulSoup can give: a RequestException
\* (transport failure, non-2xx via raise_for_status, timeout), an exception
\* of the HTML parser, or a parsed page with its <a href> list
Responses ==
    {[kind |-> "request_error", links |-> <<>>],
     [kind |-> "parse_error",   links |-> <<>>]}
    \cup {[kind |-> "ok", links |-> l] : l \in LinkLists}

\* ---------------------------------------------------------------- state
VARIABLES
    pc,            \* "validate" (lines 30-45), "loop" (line 64), "done" (returned)
    url,           \* params['url']
    depth,         \* int(params['depth'])
    max_pages,     \* int(params['max_pages'])
    selectors_ok,  \* whether every selector of params['selectors'] is valid CSS
    visited,       \* line 59
    to_visit,      \* line 61
    pages_scraped, \* results['pages_scraped']
    data,          \* results['data']
    urls_visited,  \* results['urls_visited']
    log,           \* one entry per requests.get issued: lines 74-75, 112, 122
    links,         \* line 96: the hrefs last read from a page (a local that
                   \* keeps its value until the next page is expanded)
    found,         \* history: for every URL a link to which was read (lines
                   \* 97-106), the least depth + 1 of the pages linking to it
    result         \* the value execute returns

vars == <<pc, url, depth, max_pages, selectors_ok, visited, to_visit,
          pages_scraped, data, urls_visited, log, links, found, result>>

params == <<url, depth, max_pages, selectors_ok>>

NoResult == [error_type |-> "not_returned"]

Init ==
    /\ pc = "validate"
    /\ url \in Seeds
    /\ depth \in 0..MaxDepth
    /\ max_pages \in 0..MaxPages
    /\ selectors_ok \in BOOLEAN
    /\ visited = {}
    /\ to_visit = <<>>
    /\ pages_scraped = 0
    /\ data = <<>>
    /\ urls_visited = <<>>
    /\ log = <<>>
    /\ links = <<>>
    /\ found = <<>>
    /\ result = NoResult

\* ---------------------------------------------------------------- operations
\* lines 41-45: the dictionary returned for a refused seed (the message of
\* line 43 is kept as one token)
ValidationError ==
    [success |-> FALSE, error |-> "Invalid URL", error_type |-> "validation_error"]

\* the handler of lines 120-130 returning the results gathered so far, marked
\* as failed, for a fresh dictionary
ExecutionErrorWithPages ==
    [success |-> FALSE, error |-> "exception", traceback |-> "traceback",
     error_type |-> "execution_error", pages_scraped |-> pages_scraped,
     data |-> data, urls_visited |-> urls_visited]

\* lines 125-130: the dictionary the handler of line 120 returns (str(e) and
\* the traceback are kept as one token each)
ExecutionError ==
    [success |-> FALSE, error |-> "exception", traceback |-> "traceback",
     error_type |-> "execution_error"]

\* lines 38-45: the seed is refused
ValidateReject ==
    /\ pc = "validate"
    /\ ~ValidUrl(url)
    /\ pc' = "done"
    /\ result' = ValidationError
    /\ UNCHANGED <<params, visited, to_visit, pages_scraped, data, urls_visited,
                   log, links, found>>

\* lines 47-61: the seed is accepted and queued at depth 0
ValidateAccept ==
    /\ pc = "validate"
    /\ ValidUrl(url)
    /\ pc' = "loop"
    /\ visited' = {}
    /\ to_visit' = <<[url |-> url, depth |-> 0]>>
    /\ found' = (url :> 0)
    /\ UNCHANGED <<params, pages_scraped, data, urls_visited, log, links, result>>

\* the loop of line 64 with the page budget forgotten
LoopConditionNoBudget == to_visit # <<>>

\* the loop of line 64 with <= for <
LoopConditionOffByOne == to_visit # <<>> /\ pages_scraped <= max_pages

\* line 64
LoopCondition == to_visit # <<>> /\ pages_scraped < max_pages

\* to_visit.pop() for to_visit.pop(0): the newest entry is taken
PopLast(queue) ==
    [entry |-> queue[Len(queue)], rest |-> SubSeq(queue, 1, Len(queue) - 1)]

\* line 65: to_visit.pop(0) takes the oldest entry
Pop(queue) == [entry |-> Head(queue), rest |-> Tail(queue)]

\* the test of line 67 left out
AlreadyVisitedNever(u) == FALSE

\* line 67
AlreadyVisited(u) == u \in visited

\* the depth test of line 95 with <= for <
ShouldExpandInclusive(d) == d <= depth

\* line 95
ShouldExpand(d) == d < depth

\* lines 97-109 without the test of line 108
RECURSIVE EnqueueLinksUnchecked(_, _, _, _)
EnqueueLinksUnchecked(queue, hrefs, seen, d) ==
    IF hrefs = <<>> THEN queue
    ELSE EnqueueLinksUnchecked(
             Append(queue, [url |-> ResolveHref(url, Head(hrefs)), depth |-> d + 1]),
             Tail(hrefs), seen, d)

\* lines 97-109 with to_visit.insert(0, ...) for to_visit.append(...)
RECURSIVE EnqueueLinksFront(_, _, _, _)
EnqueueLinksFront(queue, hrefs, seen, d) ==
    IF hrefs = <<>> THEN queue
    ELSE LET href == ResolveHref(url, Head(hrefs)) IN
         EnqueueLinksFront(IF href \notin seen
                               THEN <<[url |-> href, depth |-> d + 1]>> \o queue
                               ELSE queue,
                           Tail(hrefs), seen, d)

\* lines 97-109: the links of a page, resolved and appended unless visited
RECURSIVE EnqueueLinks(_, _, _, _)
EnqueueLinks(queue, hrefs, seen, d) ==
    IF hrefs = <<>> THEN queue
    ELSE LET href == ResolveHref(url, Head(hrefs)) IN
         EnqueueLinks(IF href \notin seen
                          THEN Append(queue, [url |-> href, depth |-> d + 1])
                          ELSE queue,
                      Tail(hrefs), seen, d)

\* line 70 left out: the URL is never marked
MarkVisitedNot(u) == visited

\* line 70: visited.add(current_url), at dequeue
MarkVisited(u) == visited \cup {u}

\* the record of lines 81-85 with url for current_url
PageDataSeedUrl(cur) == [url |-> url, depth |-> cur.depth]

\* lines 81-85: page_data (the extracted texts are left out)
PageData(cur) == [url |-> cur.url, depth |-> cur.depth]

\* the results of lines 48-54 with success computed from the page count
ResultsFailedWhenEmpty ==
    [success |-> pages_scraped > 0, pages_scraped |-> pages_scraped,
     data |-> data, execution_time |-> "elapsed", urls_visited |-> urls_visited]

\* lines 48-54, 116-118: the dictionary results as it is returned (the time
\* of line 116 is kept as one token)
Results ==
    [success |-> TRUE, pages_scraped |-> pages_scraped,
     data |-> data, execution_time |-> "elapsed", urls_visited |-> urls_visited]

\* lines 97-106 as history: every link read on a page of depth d, queued or
\* not, is a way to its URL of d + 1 hops
RECURSIVE Discover(_, _, _)
Discover(f, hrefs, d) ==
    IF hrefs = <<>> THEN f
    ELSE LET u == ResolveHref(url, Head(hrefs))
             least == IF u \in DOMAIN f /\ f[u] <= d + 1 THEN f[u] ELSE d + 1
         IN  Discover((u :> least) @@ f, Tail(hrefs), d)

\* lines 65-68: the popped URL was already visited
SkipVisited ==
    /\ pc = "loop"
    /\ LoopCondition
    /\ AlreadyVisited(Pop(to_visit).entry.url)
    /\ to_visit' = Pop(to_visit).rest
    /\ UNCHANGED <<pc, params, visited, pages_scraped, data, urls_visited, log,
                   links, found, result>>

\* lines 65-109: the page is fetched, parsed and recorded, its links queued
ScrapePage ==
    /\ pc = "loop"
    /\ LoopCondition
    /\ selectors_ok
    /\ LET cur == Pop(to_visit).entry IN
       /\ ~AlreadyVisited(cur.url)
       \* the hrefs of a page at the depth limit are never read (line 95)
       /\ \E resp \in {r \in Responses : ShouldExpand(cur.depth) \/ r.links = <<>>} :
            /\ resp.kind = "ok"
            /\ visited' = MarkVisited(cur.url)
            /\ urls_visited' = Append(urls_visited, cur.url)
            /\ log' = Append(log, [url |-> cur.url, depth |-> cur.depth, event |-> "ok"])
            /\ data' = Append(data, PageData(cur))
            /\ pages_scraped' = pages_scraped + 1
            /\ IF ShouldExpand(cur.depth)
                  THEN /\ links' = resp.links
                       /\ found' = Discover(found, resp.links, cur.depth)
                       /\ to_visit' = EnqueueLinks(Pop(to_visit).rest, resp.links,
                                                   MarkVisited(cur.url), cur.depth)
                  ELSE /\ to_visit' = Pop(to_visit).rest
                       /\ UNCHANGED <<links, found>>
    /\ UNCHANGED <<pc, params, result>>

\* lines 65-76, 111-113: requests.get or raise_for_status raises a
\* RequestException, which the handler of the iteration swallows
FetchFail ==
    /\ pc = "loop"
    /\ LoopCondition
    /\ LET cur == Pop(to_visit).entry IN
       /\ ~AlreadyVisited(cur.url)
       /\ \E resp \in Responses :
            /\ resp.kind = "request_error"
            /\ visited' = MarkVisited(cur.url)
            /\ urls_visited' = Append(urls_visited, cur.url)
            /\ log' = Append(log, [url |-> cur.url, depth |-> cur.depth,
                                   event |-> "request_error"])
            /\ to_visit' = Pop(to_visit).rest
    /\ UNCHANGED <<pc, params, pages_scraped, data, links, found, result>>

\* lines 78, 88, 120-130: BeautifulSoup or soup.select raises; the exception is
\* no RequestException, leaves the loop and is turned into an error result
PageException ==
    /\ pc = "loop"
    /\ LoopCondition
    /\ LET cur == Pop(to_visit).entry IN
       /\ ~AlreadyVisited(cur.url)
       \* the exception comes before any href is read
       /\ \E resp \in {r \in Responses : r.links = <<>>} :
            /\ \/ resp.kind = "parse_error"
               \/ resp.kind = "ok" /\ ~selectors_ok
            /\ visited' = MarkVisited(cur.url)
            /\ urls_visited' = Append(urls_visited, cur.url)
            /\ log' = Append(log, [url |-> cur.url, depth |-> cur.depth,
                                   event |-> "exception"])
            /\ to_visit' = Pop(to_visit).rest
    /\ pc' = "done"
    /\ result' = ExecutionError
    /\ UNCHANGED <<params, pages_scraped, data, links, found>>

\* lines 64, 115-118: the loop condition is false and the results are returned
Finish ==
    /\ pc = "loop"
    /\ ~LoopCondition
    /\ pc' = "done"
    /\ result' = Results
    /\ UNCHANGED <<params, visited, to_visit, pages_scraped, data, urls_visited,
                   log, links, found>>

Next ==
    \/ ValidateReject
    \/ ValidateAccept
    \/ SkipVisited
    \/ ScrapePage
    \/ FetchFail
    \/ PageException
    \/ Finish

Spec == Init /\ [][Next]_vars

\* execute runs to its return: every step of the sequential program is taken
FairSpec == Spec /\ WF_vars(Next)

\* ---------------------------------------------------------------- properties
Failed(i)  == log[i].event = "request_error"
Scraped(i) == log[i].event = "ok"

\* execute has returned something other than the validation error
ReturnedAfterValidation ==
    /\ pc = "done"
    /\ result.success \/ result.error_type # "validation_error"

BudgetOrFrontierExhausted == to_visit = <<>> \/ pages_scraped >= max_pages

NoDuplicates(s) == \A i, j \in 1..Len(s) : i # j => s[i] # s[j]

\* C1: in every state of the crawl, and in the returned result, pages_scraped
\* is the number of entries of data, and for max_pages >= 1 it never exceeds
\* max_pages.
C1_PagesScrapedIsLenData ==
    /\ pages_scraped = Len(data)
    /\ max_pages >= 1 => pages_scraped <= max_pages
    /\ (pc = "done" /\ result.success) =>
          /\ result.pages_scraped = Len(result.data)
          /\ max_pages >= 1 => result.pages_scraped <= max_pages

\* a crawl that returned with the budget used up, a failed fetch among its
\* attempts and entries left in the frontier
C1_Witness ==
    /\ pc = "done"
    /\ result.success
    /\ max_pages >= 2
    /\ result.pages_scraped = max_pages
    /\ Len(result.urls_visited) > Len(result.data)
    /\ to_visit # <<>>

\* C2: no URL occurs twice in urls_visited; every entry of urls_visited is one
\* requests.get, so each URL is fetched at most once, failed or not.
C2_EachUrlFetchedOnce ==
    /\ NoDuplicates(urls_visited)
    /\ Len(log) = Len(urls_visited)
    /\ \A i \in 1..Len(log) : log[i].url = urls_visited[i]

\* a URL whose fetch failed is in the frontier once more (it was linked twice
\* before it was fetched), and the seed was linked back to
C2_Witness ==
    /\ \E i \in 1..Len(log), k \in 1..Len(to_visit) :
          Failed(i) /\ to_visit[k].url = log[i].url
    /\ Len(urls_visited) >= 3

\* C3: the depths at which URLs are visited never decrease along urls_visited.
C3_BfsOrder ==
    /\ Len(log) = Len(urls_visited)
    /\ \A i, j \in 1..Len(log) :
          i < j => /\ log[i].url = urls_visited[i]
                   /\ log[i].depth <= log[j].depth

\* visits at depths 0, 1, 1 and 2, one of them failed
C3_Witness ==
    /\ Len(log) >= 4
    /\ log[2].depth = 1 /\ log[3].depth = 1
    /\ log[Len(log)].depth = 2
    /\ \E i \in 1..Len(log) : Failed(i)

\* C4: a failed fetch leaves its URL in urls_visited and nothing in data, and
\* the entries that were in the frontier after it are all dequeued unless the
\* budget is reached. Stated on the returned crawl: when no page was scraped
\* after a failure (so every entry left was queued before that failure), the
\* frontier is empty or the budget is reached.
C4_FailedPageIsolated ==
    /\ \A i \in 1..Len(log) :
          Failed(i) => /\ i <= Len(urls_visited) /\ urls_visited[i] = log[i].url
                       /\ \A k \in 1..Len(data) : data[k].url # log[i].url
    /\ pages_scraped = Cardinality({i \in 1..Len(log) : Scraped(i)})
    /\ (/\ pc = "done"
        /\ \E i \in 1..Len(log) :
              Failed(i) /\ \A j \in (i + 1)..Len(log) : ~Scraped(j))
       => BudgetOrFrontierExhausted

\* C5: after validation no error of a single page leaves the loop: execute
\* returns the accumulated result, with the frontier empty or the budget used.
C5_NoErrorLeavesLoop ==
    pc = "done" =>
        \/ result.success /\ BudgetOrFrontierExhausted
        \/ ~result.success /\ result.error_type = "validation_error"

\* C6: every crawl ends with its loop at an empty frontier or at the budget.
C6_LoopReachesExit ==
    (pc = "loop") ~> (pc = "done" /\ BudgetOrFrontierExhausted)

\* every run of execute returns
Terminates == <>(pc = "done")

\* C7: the frontier grows only in a step that scraped a page at a depth below
\* the requested depth, by entries one deeper than that page; a failed page or
\* a page at the limit adds nothing; no frontier entry and no page of data is
\* deeper than the requested depth.
C7_ExpandBelowDepthOnly ==
    /\ [](/\ \A k \in 1..Len(to_visit) : to_visit[k].depth <= depth
          /\ \A k \in 1..Len(data) : data[k].depth <= depth)
    /\ [][pc = "loop" =>
            LET n == Len(to_visit)
                m == Len(to_visit')
                e == log'[Len(log')]
            IN  /\ \/ to_visit' = to_visit
                   \/ to_visit # <<>> /\ to_visit' = Tail(to_visit)
                   \/ /\ to_visit # <<>> /\ m >= n
                      /\ log' = Append(log, e)
                      /\ e.event = "ok" /\ e.depth < depth
                      /\ e.url = Head(to_visit).url /\ e.depth = Head(to_visit).depth
                      /\ SubSeq(to_visit', 1, n - 1) = Tail(to_visit)
                      /\ \A k \in n..m : to_visit'[k].depth = e.depth + 1
                /\ (log' # log /\ (e.event # "ok" \/ e.depth >= depth)) =>
                     to_visit' = Tail(to_visit)
         ]_vars

\* a page scraped at depth 1 has put an entry of depth 2 = depth in the
\* frontier, after a failed fetch
C7_Witness ==
    /\ depth = 2
    /\ \E k \in 1..Len(to_visit) : to_visit[k].depth = 2
    /\ \E k \in 1..Len(data) : data[k].depth = 1
    /\ \E i \in 1..Len(log) : Failed(i)

\* C8: a crawl with depth = 0 that passed validation ends with
\* urls_visited = [seed].
C8_DepthZeroVisitsSeedOnly ==
    (ReturnedAfterValidation /\ depth = 0) => urls_visited = <<url>>

\* C9: once pages_scraped has reached max_pages the next step of the loop is
\* the return: nothing is dequeued or fetched, whatever the frontier holds;
\* hence the last fetch of a crawl at its budget is the one that reached it.
C9_BudgetStopsCrawl ==
    /\ []((pc # "validate" /\ pages_scraped >= max_pages /\ log # <<>>)
             => log[Len(log)].event = "ok")
    /\ [][(pc = "loop" /\ pages_scraped >= max_pages) =>
             /\ pc' = "done"
             /\ to_visit' = to_visit
             /\ log' = log
             /\ urls_visited' = urls_visited
             /\ result'.success /\ result'.pages_scraped = pages_scraped
         ]_vars

\* max_pages = 1: the seed was the only fetch and its links are still queued
C9_Witness ==
    /\ pc = "done"
    /\ max_pages = 1
    /\ result.success /\ result.pages_scraped = 1
    /\ Len(log) = 1
    /\ Len(to_visit) = MaxLinks

\* C10: a seed without a scheme or without a host is refused before the loop:
\* nothing is fetched or recorded as visited, and the validation error is
\* what execute returns.
C10_BadSeedRejected ==
    url \in {SeedNoUrl, SeedNoHost, SeedNoSch} =>
        /\ pc # "loop"
        /\ log = <<>> /\ urls_visited = <<>> /\ visited = {} /\ to_visit = <<>>
        /\ pc = "done" => /\ ~result.success
                          /\ result.error_type = "validation_error"

\* "not-a-url" was refused
C10_Witness ==
    /\ pc = "done"
    /\ url = SeedNoUrl
    /\ ~result.success
    /\ result.error_type = "validation_error"

UrlsOf(q) == [k \in 1..Len(q) |-> q[k].url]

\* the entries that a step has appended behind what was left of the frontier
Appended == SubSeq(to_visit', Len(to_visit), Len(to_visit'))

\* a step of the loop that scraped a page and read its hrefs
Expanded ==
    /\ pc = "loop"
    /\ log' # log
    /\ log'[Len(log')].event = "ok"
    /\ log'[Len(log')].depth < depth

\* C11: a request with max_pages <= 0 is refused with the validation error
\* before the loop; no crawl runs for it.
C11_NonPositiveBudgetRejected ==
    max_pages <= 0 =>
        /\ pc # "loop"
        /\ pc = "done" => /\ ~result.success
                          /\ result.error_type = "validation_error"

\* C12 as claimed: the URL of every entry waiting in the frontier is already
\* in the visited set.
C12_VisitedAtEnqueue ==
    \A k \in 1..Len(to_visit) : to_visit[k].url \in visited

\* C12 as the code has it: a URL enters the visited set in the step that
\* dequeues it for its fetch, and the visited set is exactly the set of URLs
\* fetched so far.
C12_VisitedAtDequeue ==
    /\ [](visited = {log[i].url : i \in 1..Len(log)})
    /\ [][visited' # visited =>
            /\ to_visit # <<>>
            /\ Head(to_visit).url \notin visited
            /\ visited' = visited \cup {Head(to_visit).url}
            /\ Len(log') = Len(log) + 1
            /\ log'[Len(log')].url = Head(to_visit).url
         ]_vars

\* entries wait in the frontier, one for a URL not yet visited, behind
\* two fetches
C12_Witness ==
    /\ Cardinality(visited) >= 2
    /\ Len(to_visit) >= 2
    /\ \E k \in 1..Len(to_visit) : to_visit[k].url \notin visited

\* C13 as claimed: the frontier never holds two entries with the same URL.
C13_NoDuplicateFrontierEntries == NoDuplicates(UrlsOf(to_visit))

\* C13 as the code has it: the frontier is consumed from its head, one entry
\* per step, and no URL that was dequeued and fetched is ever appended again;
\* a URL not yet fetched may be queued more than once.
C13_FetchedNeverRequeued ==
    [][(pc = "loop" /\ to_visit' # to_visit) =>
          /\ to_visit # <<>>
          /\ SubSeq(to_visit', 1, Len(to_visit) - 1) = Tail(to_visit)
          /\ \A k \in 1..Len(Appended) :
                /\ Appended[k].url \notin visited'
                /\ Appended[k].url \notin {log'[i].url : i \in 1..Len(log')}
      ]_vars

\* the frontier holds one URL twice, after a page that linked back to the seed
C13_Witness ==
    /\ ~NoDuplicates(UrlsOf(to_visit))
    /\ Len(log) >= 2
    /\ url \in DOMAIN found /\ found[url] = 0
    /\ \E i \in 1..Len(links) : ResolveHref(url, links[i]) = url

\* C14: the hrefs read from a page are resolved against the scheme and host of
\* that page: the entries appended are the hrefs so resolved, less the visited.
C14_ResolvedAgainstPage ==
    [][Expanded =>
          LET page == Head(to_visit).url
              target(i) == ResolveHref(page, links'[i])
              kept == {i \in 1..Len(links') : target(i) \notin visited'}
          IN  /\ {Appended[k].url : k \in 1..Len(Appended)} = {target(i) : i \in kept}
              /\ Len(Appended) = Cardinality(kept)
      ]_vars

\* C15: a crawl whose every fetch failed returns success = true with
\* pages_scraped = 0, no data, and the URLs attempted in urls_visited.
C15_AllFailedIsSuccess ==
    (/\ pc = "done"
     /\ "error_type" \in DOMAIN result => result.error_type # "validation_error"
     /\ \A i \in 1..Len(log) : Failed(i)) =>
        /\ result.success
        /\ result.pages_scraped = 0
        /\ result.data = <<>>
        /\ result.urls_visited = UrlsOf(log)

\* the seed's fetch failed and the crawl returned
C15_Witness ==
    /\ pc = "done"
    /\ Len(log) = 1 /\ Failed(1)
    /\ result.success
    /\ result.urls_visited = <<url>>

RECURSIVE ScrapedPages(_)
ScrapedPages(l) ==
    IF l = <<>> THEN <<>>
    ELSE (IF Head(l).event = "ok"
             THEN <<[url |-> Head(l).url, depth |-> Head(l).depth]>> ELSE <<>>)
         \o ScrapedPages(Tail(l))

\* C16: in a returned crawl result urls_visited holds every URL fetched, in
\* order, and data holds, in the same order, exactly those whose fetch
\* succeeded.
C16_DataIsScrapedSubsequence ==
    (pc = "done" /\ result.success) =>
        /\ result.urls_visited = UrlsOf(log)
        /\ result.data = ScrapedPages(log)

\* a result with a failed fetch between two scraped pages
C16_Witness ==
    /\ pc = "done" /\ result.success
    /\ Len(log) >= 3
    /\ Scraped(1) /\ Failed(2) /\ Scraped(3)

RECURSIVE FirstOccurrences(_, _)
FirstOccurrences(s, seen) ==
    IF s = <<>> THEN <<>>
    ELSE (IF Head(s) \in seen THEN <<>> ELSE <<Head(s)>>)
         \o FirstOccurrences(Tail(s), seen \cup {Head(s)})

\* C17: with depth = 1, every fetch succeeding and the frontier exhausted
\* within the budget, urls_visited is the seed followed by the resolved links
\* of the seed page in the order of their first occurrence.
C17_SeedThenItsLinks ==
    (/\ pc = "done" /\ result.success
     /\ depth = 1
     /\ log # <<>>
     /\ \A i \in 1..Len(log) : Scraped(i)
     /\ to_visit = <<>>)
    => result.urls_visited =
          FirstOccurrences(<<url>> \o [i \in 1..Len(links) |-> ResolveHref(url, links[i])],
                           {})

\* the seed had a root-relative and a document-relative link; three pages
\* were visited
C17_Witness ==
    /\ pc = "done" /\ result.success
    /\ depth = 1
    /\ \A i \in 1..Len(log) : Scraped(i)
    /\ to_visit = <<>>
    /\ links = << <<"p3">>, <<"/", "p2">> >>
    /\ Len(result.urls_visited) = 3

\* C19: the depth recorded for a page is the least number of hops over the
\* links read from scraped pages (found keeps that least number: a page whose
\* depth were too large would have a parent on a shortest chain with the right
\* depth, and found would hold that depth + 1); an entry left in the frontier
\* for a fetched URL is never shallower than the depth at which it was fetched.
C19_DepthIsLeastHops ==
    /\ \A k \in 1..Len(data) :
          /\ data[k].url \in DOMAIN found
          /\ data[k].depth = found[data[k].url]
    /\ \A i \in 1..Len(log), k \in 1..Len(to_visit) :
          to_visit[k].url = log[i].url => log[i].depth <= to_visit[k].depth

\* a scraped page is still in the frontier at a larger depth
C19_Witness ==
    \E k \in 1..Len(data), j \in 1..Len(to_visit) :
        /\ to_visit[j].url = data[k].url
        /\ to_visit[j].depth > data[k].depth

\* C20: a pop of an entry whose URL is in the visited set removes the entry and
\* changes nothing else; the visited set is the set of URLs of urls_visited.
C20_SkipOnlyPops ==
    /\ [](visited = {urls_visited[i] : i \in 1..Len(urls_visited)})
    /\ [][(/\ pc = "loop"
           /\ to_visit # <<>> /\ pages_scraped < max_pages
           /\ Head(to_visit).url \in visited)
          => /\ to_visit' = Tail(to_visit)
             /\ UNCHANGED <<pc, visited, urls_visited, data, pages_scraped, log, result>>
      ]_vars

\* the loop is about to pop an entry for a URL it has fetched
C20_Witness ==
    /\ pc = "loop"
    /\ to_visit # <<>> /\ pages_scraped < max_pages
    /\ Head(to_visit).url \in visited
    /\ Len(to_visit) >= 2

\* C21: execute always returns and never raises: while it has not returned it
\* has a next step, and what it returns is either a success result with
\* pages_scraped, data, urls_visited and execution_time, or a failure result
\* with error and an error_type of validation_error or execution_error; a
\* failure result has none of the fields that carry the scraped pages.
C21_AlwaysReturnsResult ==
    /\ pc # "done" => /\ result = NoResult
                      /\ ENABLED Next
    /\ pc = "done" =>
          /\ "success" \in DOMAIN result
          /\ \/ /\ result.success
                /\ DOMAIN result = {"success", "pages_scraped", "data",
                                    "urls_visited", "execution_time"}
             \/ /\ ~result.success
                /\ {"error", "error_type"} \subseteq DOMAIN result
                /\ result.error_type \in {"validation_error", "execution_error"}
                /\ DOMAIN result \cap {"pages_scraped", "data", "urls_visited"} = {}

\* an exception ended the crawl after two pages were scraped, and the result
\* is the execution error
C21_Witness ==
    /\ pc = "done"
    /\ pages_scraped = 2 /\ Len(data) = 2
    /\ log[Len(log)].event = "exception"
    /\ ~result.success
    /\ result.error_type = "execution_error"

\* C22: in every state of the crawl the depths in to_visit do not decrease
\* from head to tail and the last depth is at most the first plus 1; every pop
\* leaves a queue in which no entry is shallower than the entry popped (the
\* queue then stays as it is until the next pop).
C22_FrontierDepthsOrdered ==
    /\ [](/\ \A j, k \in 1..Len(to_visit) :
                j <= k => to_visit[j].depth <= to_visit[k].depth
          /\ to_visit # <<>> =>
                to_visit[Len(to_visit)].depth <= Head(to_visit).depth + 1)
    /\ [][(pc = "loop" /\ to_visit' # to_visit)
          => /\ to_visit # <<>>
             /\ \A k \in 1..Len(to_visit') :
                   to_visit'[k].depth >= Head(to_visit).depth
      ]_vars

\* after a page of depth 1 was fetched and expanded the frontier holds entries
\* of depth 1 and of depth 2
C22_Witness ==
    /\ pc = "loop"
    /\ log # <<>> /\ log[Len(log)].depth = 1 /\ log[Len(log)].event = "ok"
    /\ Len(to_visit) >= 3
    /\ Head(to_visit).depth = 1
    /\ to_visit[Len(to_visit)].depth = 2

====
